---- MODULE Spec2Model ----
(***************************************************************************)
(* Model of aeron-driver/src/main/c/util/aeron_properties_util.c: the      *)
(* line-at-a-time properties parser.  Bytes are their ASCII codes, a line   *)
(* is a C string (the bytes of the line, followed by a terminating NUL),   *)
(* the parser state is the assembly buffer property_str with the two       *)
(* offsets name_end and value_end.  size_t arithmetic wraps (SizeMod); a   *)
(* store outside property_str is undefined behaviour: the byte does not    *)
(* land in the buffer and a later read outside the buffer yields any       *)
(* string.                                                                 *)
(*                                                                         *)
(* Four specifications share the variables: Spec (calls of                 *)
(* aeron_properties_parse_line with any handler), SpecScan (one call of    *)
(* aeron_next_non_whitespace), SpecEnv (calls of aeron_properties_setenv)  *)
(* and SpecLoad (aeron_properties_file_load over a file, with              *)
(* aeron_properties_setenv_property as handler).  Each leaves the          *)
(* variables of the others at their idle values.                           *)
(***************************************************************************)
EXTENDS Integers, Sequences, FiniteSets

\* ------------------------------------------------------------------ bytes
NUL == 0
TAB == 9
SP == 32
BANG == 33
HASH == 35
COLON == 58
EQ == 61
BACKSLASH == 92
DOT == 46
USCORE == 95
LF == 10
CR == 13
LA == 97
\* the upper-case letter of LA
UA == LA - 32

\* a byte of property_str that was never written (indeterminate)
Indet == 0 - 1

\* ------------------------------------------------------------------ bounds
\* capacity of property_str (AERON_PROPERTIES_MAX_LENGTH), scaled down
Capacity == 5
\* longest line enumerated byte by byte
MaxLineLen == 4
\* longest head of the lines that are padded up to Capacity bytes
MaxHeadLen == 2
\* longest buffer given to aeron_next_non_whitespace on its own
MaxScanLen == 3
\* longest name given to aeron_properties_setenv byte by byte
MaxNameLen == 2
\* calls of aeron_properties_setenv in one run
MaxCalls == 2
\* longest file given to aeron_properties_file_load
MaxFileLen == 5

\* size_t is modelled 16 bits wide: wrapped offsets stay far above Capacity
SizeMod == 65536

SizeT(x) == x % SizeMod

Char == {SP, TAB, BANG, HASH, COLON, EQ, BACKSLASH, LA}

SeqsUpTo(S, n) == UNION {[1..k -> S] : k \in 0..n}

\* the lines given to the parser: every string over Char up to MaxLineLen,
\* and strings padded to exactly Capacity bytes (lines the bound check rejects
\* from the zero state)
Lines ==
    SeqsUpTo(Char, MaxLineLen) \cup
    {h \o [i \in 1..(Capacity - Len(h)) |-> p] :
        h \in SeqsUpTo(Char, MaxHeadLen), p \in {SP, LA}}

\* what a handler may return
HandlerResults == {0 - 1, 0, 1}

\* what a read outside the written part of property_str may yield
Garbage == {<<>>, <<LA>>}

VARIABLES
    property_str,   \* state->property_str: [0..Capacity-1 -> byte]
    name_end,       \* state->name_end
    value_end,      \* state->value_end
    line,           \* the line of the last call
    entry,          \* the parser state on entry of the last call
    ret,            \* where the last call returned: "ready" before a call
    result,         \* the value the last call returned
    calls,          \* the handler invocations of the last call: <<name, value, returned>>
    oob,            \* the last call stored outside property_str
    scan,           \* a call of aeron_next_non_whitespace: arguments and result
    env,            \* the environment of the process: a set of [key, value]
    envcall,        \* the last call of aeron_properties_setenv
    file,           \* aeron_properties_file_load: the bytes of fpin not yet read
    lineno,         \* aeron_properties_file_load: lineno
    load,           \* aeron_properties_file_load: where it is, result and error
    raw,            \* aeron_properties_file_load: the line fgets read last
    log             \* the calls of the parser made by the load, in order

vars ==
    <<property_str, name_end, value_end, line, entry, ret, result, calls, oob,
      scan, env, envcall, file, lineno, load, raw, log>>

\* the parser alone: its state and the record of its last call
parserVars ==
    <<property_str, name_end, value_end, line, entry, ret, result, calls, oob>>

scanVars == <<scan>>

envVars == <<env, envcall>>

loadVars == <<file, lineno, load, raw, log>>

\* ------------------------------------------------------------------ helpers
\* line[i] of the C string: the NUL follows the last byte
LineAt(l, i) == IF i < Len(l) THEN l[i + 1] ELSE NUL

\* faulty variant: the tab is not taken for a blank
IsBlank_SpaceOnly(c) == c = SP

IsBlank(c) == c = SP \/ c = TAB

\* faulty variant: '!' does not start a comment
IsComment_HashOnly(c) == c = HASH

IsComment(c) == c = BANG \/ c = HASH

IsSeparator(c) == c = COLON \/ c = EQ

\* property_str[i] = c; an index outside the array does not land in it
Store(st, i, c) ==
    IF i < Capacity
    THEN [st EXCEPT !.str = [@ EXCEPT ![i] = c]]
    ELSE [st EXCEPT !.oob = TRUE]

\* faulty variant: the loop stops one index short of end
RECURSIVE aeron_next_non_whitespace_Exclusive(_, _, _)
aeron_next_non_whitespace_Exclusive(buffer, start, end) ==
    IF start >= end THEN 0 - 1
    ELSE IF IsBlank(LineAt(buffer, start))
         THEN aeron_next_non_whitespace_Exclusive(buffer, start + 1, end)
         ELSE IF LineAt(buffer, start) = NUL THEN 0 - 1 ELSE start

RECURSIVE aeron_next_non_whitespace(_, _, _)
aeron_next_non_whitespace(buffer, start, end) ==
    IF start > end THEN 0 - 1
    ELSE IF IsBlank(LineAt(buffer, start))
         THEN aeron_next_non_whitespace(buffer, start + 1, end)
         ELSE IF LineAt(buffer, start) = NUL THEN 0 - 1 ELSE start

\* aeron_properties_parse_init: the zero state, both offsets zero.  The bytes
\* of property_str are dead from here on (none is read before it is stored
\* again) and are indeterminate, as in a fresh state
aeron_properties_parse_init(st) ==
    [st EXCEPT !.name_end = 0, !.value_end = 0,
               !.str = [i \in 0..(Capacity - 1) |-> Indet]]

\* memcpy(property_str + dst, line + src, n)
RECURSIVE Memcpy(_, _, _, _, _)
Memcpy(st, dst, l, src, n) ==
    IF n = 0 THEN st
    ELSE Memcpy(Store(st, SizeT(dst), LineAt(l, src)), dst + 1, l, src + 1, n - 1)

\* the C strings a handler can read at property_str + p
RECURSIVE CScan(_, _)
CScan(str, p) ==
    IF p >= Capacity \/ str[p] = Indet THEN [s |-> <<>>, ok |-> FALSE]
    ELSE IF str[p] = NUL THEN [s |-> <<>>, ok |-> TRUE]
    ELSE LET r == CScan(str, p + 1) IN [s |-> <<str[p]>> \o r.s, ok |-> r.ok]

CStrings(str, p) ==
    LET r == CScan(str, p)
    IN IF r.ok THEN {r.s} ELSE {r.s \o g : g \in Garbage}

\* faulty variant: the name keeps the blanks before the separator
TrimBack_None(st, l, j) == st

\* lines 82-90: trim back for whitespace after name
RECURSIVE TrimBack(_, _, _)
TrimBack(st, l, j) ==
    IF j < 0 \/ ~IsBlank(LineAt(l, j)) THEN st
    ELSE LET n == SizeT(st.name_end - 1)
         IN TrimBack(Store([st EXCEPT !.name_end = n], n, NUL), l, j - 1)

\* lines 72-97: copy the name up to the separator; value_start is kept in st
RECURSIVE NameLoop(_, _, _)
NameLoop(st, l, i) ==
    IF i >= Len(l) THEN st
    ELSE IF IsSeparator(LineAt(l, i))
         THEN LET s1 == Store(st, st.name_end, NUL)
                  s2 == TrimBack([s1 EXCEPT !.value_start = i + 1], l, i - 1)
              IN [s2 EXCEPT !.value_end = SizeT(s2.name_end + 1)]
         ELSE NameLoop([Store(st, st.name_end, LineAt(l, i))
                            EXCEPT !.name_end = SizeT(@ + 1)], l, i + 1)

\* faulty variant: the terminating NUL is not stored
Terminate_NoStore(st) == [st EXCEPT !.value_end = SizeT(@ + 1)]

\* property_str[value_end++] = '\0'
Terminate(st) ==
    [Store(st, st.value_end, NUL) EXCEPT !.value_end = SizeT(@ + 1)]

\* faulty variant: the bound check is off by one
TooLong_OffByOne(st, length) == length > SizeT(Capacity - st.value_end)

\* line 57: length >= sizeof(property_str) - value_end, in size_t
TooLong(st, length) == length >= SizeT(Capacity - st.value_end)

\* lines 99-104: the malformed line resets the state and fails
Malformed(st) ==
    [st |-> aeron_properties_parse_init(st), ret |-> "malformed",
     emit |-> FALSE, result |-> 0 - 1]

\* lines 69 and 124: a comment or a blank line returns 0
Ignored(st) == [st |-> st, ret |-> "ignored", emit |-> FALSE, result |-> 0]

\* faulty variant: the continuation backslash is copied into the value
Accumulate_KeepBackslash(st, l, value_start) ==
    LET n == Len(l) - value_start
        s == Memcpy(st, st.value_end, l, value_start, n)
    IN IF LineAt(l, Len(l) - 1) = BACKSLASH
       THEN [st |-> [s EXCEPT !.value_end = SizeT(@ + n)],
             ret |-> "continued", emit |-> FALSE, result |-> 0]
       ELSE [st |-> Terminate([s EXCEPT !.value_end = SizeT(@ + n)]),
             ret |-> "emitted", emit |-> TRUE, result |-> 0]

\* faulty variant: value_end is advanced past the continuation backslash
Accumulate_AdvancePastBackslash(st, l, value_start) ==
    LET length == Len(l)
    IN IF LineAt(l, length - 1) = BACKSLASH
       THEN LET n == length - value_start - 1
                s == Memcpy(st, st.value_end, l, value_start, n)
            IN [st |-> [s EXCEPT !.value_end = SizeT(@ + n + 1)],
                ret |-> "continued", emit |-> FALSE, result |-> 0]
       ELSE LET n == length - value_start
                s == Memcpy(st, st.value_end, l, value_start, n)
            IN [st |-> Terminate([s EXCEPT !.value_end = SizeT(@ + n)]),
                ret |-> "emitted", emit |-> TRUE, result |-> 0]

\* lines 128-142: append the value bytes of the line from value_start on
Accumulate(st, l, value_start) ==
    LET length == Len(l)
    IN IF LineAt(l, length - 1) = BACKSLASH
       THEN LET n == length - value_start - 1
                s == Memcpy(st, st.value_end, l, value_start, n)
            IN [st |-> [s EXCEPT !.value_end = SizeT(@ + n)],
                ret |-> "continued", emit |-> FALSE, result |-> 0]
       ELSE LET n == length - value_start
                s == Memcpy(st, st.value_end, l, value_start, n)
            IN [st |-> Terminate([s EXCEPT !.value_end = SizeT(@ + n)]),
                ret |-> "emitted", emit |-> TRUE, result |-> 0]

\* lines 54-145 up to the handler call: the state before the handler runs (or
\* on return when it does not), the return taken, whether the handler runs,
\* and the value of result
aeron_properties_parse_line(st, l) ==
    LET length == Len(l)
        in_name == ~(0 < st.name_end)
    IN IF TooLong(st, length)
       THEN [st |-> st, ret |-> "too_long", emit |-> FALSE, result |-> 0 - 1]
       ELSE IF in_name
       THEN LET cursor == aeron_next_non_whitespace(l, 0, SizeT(length - 1))
            IN IF cursor = 0 - 1 \/ IsComment(LineAt(l, cursor))
               THEN Ignored(st)
               ELSE LET s == NameLoop(st, l, cursor)
                    IN IF s.value_end = 0 \/ s.name_end = 0
                       THEN Malformed(s)
                       ELSE LET value_start ==
                                    aeron_next_non_whitespace(
                                        l, s.value_start, SizeT(length - 1))
                            IN IF value_start = 0 - 1
                               THEN [st |-> Terminate(s), ret |-> "emitted",
                                     emit |-> TRUE, result |-> 0]
                               ELSE Accumulate(s, l, value_start)
       ELSE LET value_start == aeron_next_non_whitespace(l, 0, SizeT(length - 1))
            IN IF value_start = 0 - 1 \/ IsComment(LineAt(l, value_start))
               THEN Ignored(st)
               ELSE Accumulate(st, l, value_start)

\* faulty variant: the state is not reset after the handler
AfterHandler_NoReset(st) == st

\* faulty variant: the handler's result is dropped
ReturnAfterHandler_Ignored(returned) == 0

\* lines 112-115 and 139-144: result = handler(...); the state is reset and
\* result returned
AfterHandler(st) == aeron_properties_parse_init(st)

ReturnAfterHandler(returned) == returned

\* ------------------------------------------------------------------ the machine
ZeroStr == [i \in 0..(Capacity - 1) |-> Indet]

NoEntry == [str |-> ZeroStr, name_end |-> 0, value_end |-> 0]

\* no call of aeron_next_non_whitespace, of aeron_properties_setenv, of
\* aeron_properties_file_load is under way
NoScan == [buffer |-> <<>>, start |-> 0, end |-> 0, done |-> FALSE, returned |-> 0]

ScanIdle == scan = NoScan

NoCall ==
    [name |-> <<>>, value |-> <<>>, key |-> <<>>, terminated |-> TRUE,
     before |-> {}, returned |-> 0, n |-> 0]

EnvIdle == env = {} /\ envcall = NoCall

NotLoading == [at |-> "none", result |-> 0, error |-> "none", lineno |-> 0]

NoRaw == [bytes |-> <<>>, length |-> 0, read |-> {}, written |-> {}]

NoLoad == [at |-> "start", result |-> 0 - 1, error |-> "none", lineno |-> 0]

LoadIdle ==
    /\ file = <<>>
    /\ lineno = 0
    /\ load = NotLoading
    /\ raw = NoRaw
    /\ log = <<>>

\* the lines offered in a parser state: the bound check compares lengths only,
\* so of the lines it rejects the model offers those of the first rejected
\* length, Capacity - value_end, and those of length Capacity
InputLines ==
    {l \in Lines : Len(l) <= SizeT(Capacity - value_end) \/ Len(l) = Capacity}

Init ==
    /\ property_str = ZeroStr
    /\ name_end = 0
    /\ value_end = 0
    /\ line = <<>>
    /\ entry = NoEntry
    /\ ret = "ready"
    /\ result = 0
    /\ calls = <<>>
    /\ oob = FALSE
    /\ ScanIdle /\ EnvIdle /\ LoadIdle

\* one call of aeron_properties_parse_line(state, l, Len(l), handler, clientd)
ParseLine ==
    /\ ret = "ready"
    /\ \E l \in InputLines :
        LET st0 == [str |-> property_str, name_end |-> name_end,
                    value_end |-> value_end, value_start |-> 0, oob |-> FALSE]
            r == aeron_properties_parse_line(st0, l)
        IN /\ line' = l
           /\ entry' = [str |-> property_str, name_end |-> name_end,
                        value_end |-> value_end]
           /\ ret' = r.ret
           /\ oob' = r.st.oob
           /\ IF r.emit
              THEN \E n \in CStrings(r.st.str, 0),
                      v \in CStrings(r.st.str, SizeT(r.st.name_end + 1)),
                      h \in HandlerResults :
                      LET fin == AfterHandler(r.st)
                      IN /\ calls' = <<[name |-> n, value |-> v, returned |-> h]>>
                         /\ result' = ReturnAfterHandler(h)
                         /\ property_str' = fin.str
                         /\ name_end' = fin.name_end
                         /\ value_end' = fin.value_end
              ELSE /\ calls' = <<>>
                   /\ result' = r.result
                   /\ property_str' = r.st.str
                   /\ name_end' = r.st.name_end
                   /\ value_end' = r.st.value_end
    /\ UNCHANGED <<scanVars, envVars, loadVars>>

\* the caller has taken the result and turns to its next line; the parser
\* state is what the call left.  A call that stored outside property_str ends
\* the run: what the program does after it is undefined
NextLine ==
    /\ ret # "ready"
    /\ ~oob
    /\ ret' = "ready"
    /\ line' = <<>>
    /\ entry' = NoEntry
    /\ result' = 0
    /\ calls' = <<>>
    /\ oob' = FALSE
    /\ UNCHANGED <<property_str, name_end, value_end>>
    /\ UNCHANGED <<scanVars, envVars, loadVars>>

Next == ParseLine \/ NextLine

Spec == Init /\ [][Next]_vars

\* ------------------------------------------------------------------ what the claims speak of
Blanks == {SP, TAB}

\* [A-Za-z0-9._-]
NameClass == (65..90) \cup (97..122) \cup (48..57) \cup {46, 95, 45}

RECURSIVE DropBlanks(_)
DropBlanks(s) ==
    IF s = <<>> THEN s
    ELSE IF Head(s) \in Blanks THEN DropBlanks(Tail(s)) ELSE s

RECURSIVE DropTrailingBlanks(_)
DropTrailingBlanks(s) ==
    IF s = <<>> THEN s
    ELSE IF s[Len(s)] \in Blanks
         THEN DropTrailingBlanks(SubSeq(s, 1, Len(s) - 1)) ELSE s

\* the position of the first ':' or '=' of a line, 0 when it has none
SepAt(l) ==
    LET at == {i \in 1..Len(l) : l[i] \in {COLON, EQ}}
    IN IF at = {} THEN 0 ELSE CHOOSE i \in at : \A j \in at : i <= j

BeforeSep(l) == SubSeq(l, 1, SepAt(l) - 1)

AfterSep(l) == SubSeq(l, SepAt(l) + 1, Len(l))

\* the name of a new-record line: what precedes the separator, without the
\* blanks on either side
NameOf(l) == DropTrailingBlanks(DropBlanks(BeforeSep(l)))

\* empty, all blanks, or first non-blank byte '!' or '#'
IsIgnorable(l) ==
    DropBlanks(l) = <<>> \/ Head(DropBlanks(l)) \in {BANG, HASH}

EndsWithBackslash(l) == l # <<>> /\ l[Len(l)] = BACKSLASH

\* a fragment without its leading blanks and without its final backslash
Body(f) == LET d == DropBlanks(f) IN SubSeq(d, 1, Len(d) - 1)

\* a well-formed new-record line: name, separator, optional value
IsRecordLine(l) == ~IsIgnorable(l) /\ SepAt(l) > 0 /\ NameOf(l) # <<>>

Called == ret # "ready"

EntryZero == Called /\ entry.name_end = 0 /\ entry.value_end = 0

EntryInValue == Called /\ entry.name_end > 0 /\ entry.value_end > 0

IsZero == name_end = 0 /\ value_end = 0

\* the bound check lets the line of the last call through
PassesBound == Len(line) < Capacity - entry.value_end

\* name and accumulated value held by a parser state mid-record
HeldName(str, ne) == [i \in 1..ne |-> str[i - 1]]

HeldValue(str, ne, ve) == [i \in 1..(ve - ne - 1) |-> str[ne + i]]

StateKept ==
    /\ property_str = entry.str
    /\ name_end = entry.name_end
    /\ value_end = entry.value_end

EmitsOnce(n, v) ==
    /\ Len(calls) = 1
    /\ calls[1].name = n
    /\ calls[1].value = v

\* ------------------------------------------------------------------ C1
\* N=V or N:V with N in [A-Za-z0-9._-]+ and V free of newline and backslash
IsSimplePair(l) ==
    /\ SepAt(l) > 1
    /\ \A i \in 1..(SepAt(l) - 1) : l[i] \in NameClass
    /\ \A i \in (SepAt(l) + 1)..Len(l) : l[i] \notin {10, BACKSLASH}

\* C1 as stated: from the zero state the line N=V (or N:V), N in
\* [A-Za-z0-9._-]+, V without newline and backslash, invokes the handler
\* exactly once, with exactly (N, V).
C1_RoundTripAsStated ==
    (EntryZero /\ IsSimplePair(line))
        => EmitsOnce(BeforeSep(line), AfterSep(line))

V_Kept(l) == AfterSep(l) = <<>> \/ Head(AfterSep(l)) \notin Blanks

\* C1 amended: the same, for a V that does not begin with a space or a tab and
\* a line shorter than the capacity of the buffer.
C1_RoundTrip ==
    (EntryZero /\ IsSimplePair(line) /\ V_Kept(line) /\ Len(line) < Capacity)
        => EmitsOnce(BeforeSep(line), AfterSep(line))

C1_Witness ==
    /\ EntryZero /\ IsSimplePair(line) /\ V_Kept(line)
    /\ Len(AfterSep(line)) >= 2
    /\ EmitsOnce(BeforeSep(line), AfterSep(line))

\* ------------------------------------------------------------------ C2
\* the three steps of a continued record, each under the guard g: the opening
\* line "name sep f0\" stores the name and f0's body and invokes nothing; a
\* fragment ending in a backslash appends its body to the value held and
\* invokes nothing; the terminating fragment invokes the handler once with the
\* name held and the value held followed by the fragment without its leading
\* blanks.  Bodies follow one another with no byte between them.
C2_Steps(g) ==
    /\ (EntryZero /\ IsRecordLine(line) /\ EndsWithBackslash(line) /\ g)
        => /\ ret = "continued" /\ calls = <<>> /\ result = 0
           /\ name_end < value_end /\ value_end < Capacity
           /\ property_str[name_end] = NUL
           /\ HeldName(property_str, name_end) = NameOf(line)
           /\ HeldValue(property_str, name_end, value_end) = Body(AfterSep(line))
    /\ (EntryInValue /\ ~IsIgnorable(line) /\ EndsWithBackslash(line) /\ g)
        => /\ ret = "continued" /\ calls = <<>> /\ result = 0
           /\ name_end = entry.name_end /\ value_end < Capacity
           /\ property_str[name_end] = NUL
           /\ HeldName(property_str, name_end) = HeldName(entry.str, entry.name_end)
           /\ HeldValue(property_str, name_end, value_end) =
                  HeldValue(entry.str, entry.name_end, entry.value_end) \o Body(line)
    /\ (EntryInValue /\ ~IsIgnorable(line) /\ ~EndsWithBackslash(line) /\ g)
        => EmitsOnce(HeldName(entry.str, entry.name_end),
                     HeldValue(entry.str, entry.name_end, entry.value_end)
                         \o DropBlanks(line))

\* C2 as stated: a record opened by "name sep f0\", continued by fragments
\* f1\ .. f(k-1)\ and terminated by fk (no fragment blank or a comment) invokes
\* the handler exactly once, on the call for fk, with the concatenation of the
\* bodies of f0..fk, whatever the lengths of the lines.
C2_JoiningAsStated == C2_Steps(TRUE)

\* C2 amended: the same, provided every line of the record passes the bound
\* check (its length is below capacity - value_end at its call).
C2_Joining == C2_Steps(PassesBound)

C2_Witness ==
    /\ EntryInValue /\ ret = "emitted"
    /\ HeldValue(entry.str, entry.name_end, entry.value_end) # <<>>
    /\ line # <<>>
    /\ EmitsOnce(HeldName(entry.str, entry.name_end),
                 HeldValue(entry.str, entry.name_end, entry.value_end)
                     \o DropBlanks(line))

\* ------------------------------------------------------------------ C3
\* C3: from the zero state a line that is no comment and not blank, and that
\* has no separator or an empty name, fails, invokes no handler and leaves the
\* zero state.
C3_MalformedRejected ==
    (EntryZero /\ ~IsIgnorable(line) /\ (SepAt(line) = 0 \/ NameOf(line) = <<>>))
        => (result = 0 - 1 /\ calls = <<>> /\ IsZero)

\* ------------------------------------------------------------------ C4
\* C4: after a call that invoked the handler, whatever the handler returned,
\* or that failed as a malformed line, both offsets are zero.
C4_ResetAfterCompletion ==
    (Called /\ (calls # <<>> \/ ret = "malformed")) => IsZero

C4_Witness ==
    /\ EntryInValue /\ calls # <<>> /\ calls[1].returned # 0 /\ IsZero

\* ------------------------------------------------------------------ C5
\* C5: a call with length >= capacity - value_end fails, invokes no handler and
\* leaves name_end, value_end and the buffer as they were on entry.
C5_BoundEnforced ==
    (Called /\ Len(line) >= Capacity - entry.value_end)
        => (result = 0 - 1 /\ calls = <<>> /\ StateKept)

C5_Witness ==
    /\ EntryInValue /\ Len(line) >= Capacity - entry.value_end
    /\ Len(line) < Capacity
    /\ result = 0 - 1 /\ StateKept /\ name_end > 0

\* ------------------------------------------------------------------ C6
\* C6: a new-record line WS* name WS* sep WS* value without a trailing
\* backslash emits the name without the blanks before it and without those
\* between it and the separator (blanks inside it kept), and the value without
\* the blanks between the separator and its first non-blank byte, the blanks
\* at its end kept; the line emits when it passes the bound check.
C6_Trimming ==
    (EntryZero /\ IsRecordLine(line) /\ ~EndsWithBackslash(line))
        => /\ PassesBound => Len(calls) = 1
           /\ \A i \in 1..Len(calls) :
                /\ calls[i].name = NameOf(line)
                /\ calls[i].value = DropBlanks(AfterSep(line))

C6_Witness ==
    /\ EntryZero /\ IsRecordLine(line) /\ Len(calls) = 1
    /\ Len(calls[1].value) >= 2
    /\ calls[1].value[Len(calls[1].value)] \in Blanks
    /\ calls[1].name = NameOf(line)

\* ------------------------------------------------------------------ C7
\* C7: a line that passes the bound check and is empty, all blanks, or has
\* '!' or '#' as its first non-blank byte returns 0, invokes no handler and
\* leaves name_end, value_end and the buffer as they were, in the zero state
\* and mid-record alike.
C7_CommentsIgnored ==
    (Called /\ PassesBound /\ IsIgnorable(line))
        => (ret = "ignored" /\ result = 0 /\ calls = <<>> /\ StateKept)

C7_Witness ==
    /\ EntryInValue /\ PassesBound /\ IsIgnorable(line)
    /\ DropBlanks(line) # <<>>
    /\ result = 0 /\ StateKept /\ name_end > 0

\* ------------------------------------------------------------------ C8
\* C8 as stated: from the zero state a line with a non-empty name and a
\* separator after which only blanks remain invokes the handler exactly once
\* with (name, "") on that call and leaves the zero state.
C8_EmptyValueAsStated ==
    (EntryZero /\ IsRecordLine(line) /\ DropBlanks(AfterSep(line)) = <<>>)
        => (EmitsOnce(NameOf(line), <<>>) /\ IsZero)

\* C8 amended: the same, for a line shorter than the capacity of the buffer.
C8_EmptyValue ==
    (EntryZero /\ IsRecordLine(line) /\ DropBlanks(AfterSep(line)) = <<>>
        /\ Len(line) < Capacity)
        => (EmitsOnce(NameOf(line), <<>>) /\ IsZero)

C8_Witness ==
    /\ EntryZero /\ IsRecordLine(line) /\ AfterSep(line) # <<>>
    /\ DropBlanks(AfterSep(line)) = <<>>
    /\ EmitsOnce(NameOf(line), <<>>) /\ IsZero

\* ------------------------------------------------------------------ C9
\* the line of the last call terminates a record: a well-formed record line
\* or, mid-record, a fragment that is no comment, neither ending in a backslash
TerminatesRecord ==
    \/ EntryZero /\ IsRecordLine(line) /\ ~EndsWithBackslash(line)
    \/ EntryInValue /\ ~IsIgnorable(line) /\ ~EndsWithBackslash(line)

\* the record the line of the last call terminates
TerminatedRecord ==
    IF EntryZero
    THEN <<NameOf(line), DropBlanks(AfterSep(line))>>
    ELSE <<HeldName(entry.str, entry.name_end),
           HeldValue(entry.str, entry.name_end, entry.value_end)
               \o DropBlanks(line)>>

\* C9: a call invokes the handler at most once, and only when its line
\* terminates a record, with that record; a terminating line that passes the
\* bound check emits it: the emissions are the records in the order of their
\* terminating lines.
C9_EmissionOrder ==
    Called =>
        /\ Len(calls) <= 1
        /\ calls # <<>> =>
              /\ TerminatesRecord
              /\ <<calls[1].name, calls[1].value>> = TerminatedRecord
        /\ (TerminatesRecord /\ PassesBound) => calls # <<>>

\* ------------------------------------------------------------------ C10
\* C10: a call that invokes the handler returns what the handler returned and
\* leaves the zero state; a call that passes the bound check on a comment, a
\* blank line or a fragment ending in a backslash returns 0.
C10_ResultPropagated ==
    /\ (Called /\ calls # <<>>)
          => (Len(calls) = 1 /\ result = calls[1].returned /\ IsZero)
    /\ (Called /\ PassesBound /\
          (\/ IsIgnorable(line)
           \/ EntryInValue /\ EndsWithBackslash(line)
           \/ EntryZero /\ IsRecordLine(line) /\ EndsWithBackslash(line)))
          => (result = 0 /\ calls = <<>>)

C10_Witness ==
    /\ Called /\ Len(calls) = 1 /\ calls[1].returned = 1 /\ result = 1 /\ IsZero

\* ------------------------------------------------------------------ C15
\* C15: after any sequence of calls from the zero state the parser state on
\* return is either IDLE (both offsets zero) or IN_VALUE with
\* 0 < name_end < value_end <= capacity; never exactly one offset zero and
\* never an offset outside [0, capacity].
C15_StateWellFormed ==
    \/ IsZero
    \/ (0 < name_end /\ name_end < value_end /\ value_end <= Capacity)

\* ------------------------------------------------------------------ C17
\* where the value bytes of the last call were appended from
C17_Base == IF EntryZero THEN SizeT(name_end + 1) ELSE entry.value_end

\* the value bytes the line of the last call carries
C17_Fragment == IF EntryZero THEN AfterSep(line) ELSE line

IsBackslashOnly(f) == DropBlanks(f) = <<BACKSLASH>>

\* C17: a line that reaches value accumulation and is continued appends the
\* bytes between its first non-blank byte and its final backslash, never a
\* negative count, and value_end does not decrease on a call that returns
\* without emitting; a fragment whose first non-blank byte is its final
\* backslash appends nothing and leaves the parser IN_VALUE with the
\* accumulated value unchanged.
C17_BackslashOnlyAppendsNothing ==
    /\ (Called /\ calls = <<>>) => value_end >= entry.value_end
    /\ ret = "continued" =>
           SizeT(value_end - C17_Base) = Len(Body(C17_Fragment))
    /\ (EntryInValue /\ PassesBound /\ IsBackslashOnly(line)) =>
           (ret = "continued" /\ StateKept /\ calls = <<>>)
    /\ (EntryZero /\ PassesBound /\ IsRecordLine(line)
            /\ IsBackslashOnly(AfterSep(line))) =>
           /\ ret = "continued"
           /\ calls = <<>>
           /\ HeldName(property_str, name_end) = NameOf(line)
           /\ value_end = name_end + 1

\* a backslash-only continuation line met a value already begun
C17_Witness ==
    /\ EntryInValue
    /\ IsBackslashOnly(line)
    /\ ret = "continued"
    /\ StateKept
    /\ value_end > name_end + 1

\* ------------------------------------------------------------------ C18
\* C18: every index written in the assembly buffer lies in [0, capacity)
\* and name_end is never decremented below zero, also for lines where only
\* whitespace precedes the separator.
C18_WritesInBounds == ~oob /\ name_end <= Capacity

\* ------------------------------------------------------------------ the scanner on its own
ParserIdle ==
    /\ property_str = ZeroStr
    /\ name_end = 0
    /\ value_end = 0
    /\ line = <<>>
    /\ entry = NoEntry
    /\ ret = "ready"
    /\ result = 0
    /\ calls = <<>>
    /\ oob = FALSE

ScanChar == {SP, TAB, LA}

\* the calls the parser can make: a C string, start within it (its NUL
\* included), end within it or length - 1 of the empty line, SIZE_MAX
ScanInputs ==
    UNION {{[buffer |-> b, start |-> s, end |-> e, done |-> FALSE, returned |-> 0] :
                s \in 0..Len(b), e \in (0..Len(b)) \cup {SizeMod - 1}} :
           b \in SeqsUpTo(ScanChar, MaxScanLen)}

InitScan ==
    /\ scan \in ScanInputs
    /\ ParserIdle /\ EnvIdle /\ LoadIdle

\* one call of aeron_next_non_whitespace(buffer, start, end)
ScanCall ==
    /\ ~scan.done
    /\ scan' = [scan EXCEPT
                    !.done = TRUE,
                    !.returned = aeron_next_non_whitespace(
                                     scan.buffer, scan.start, scan.end)]
    /\ UNCHANGED <<parserVars, envVars, loadVars>>

NextScan == ScanCall

SpecScan == InitScan /\ [][NextScan]_vars

\* ------------------------------------------------------------------ C16
\* the indices of [start, end] at which the buffer holds neither ' ' nor '\t'
C16_NonBlankAt ==
    {i \in 0..Len(scan.buffer) :
        /\ scan.start <= i
        /\ i <= scan.end
        /\ LineAt(scan.buffer, i) \notin Blanks}

C16_First == CHOOSE i \in C16_NonBlankAt : \A j \in C16_NonBlankAt : i <= j

\* C16: aeron_next_non_whitespace returns the smallest index i of
\* [start, end] whose byte is neither space nor tab, provided that byte is
\* not NUL; it returns -1 when start > end, when every byte of the range is a
\* blank, or when the first non-blank byte of the range is NUL; it never
\* returns an index outside [start, end].
C16_FirstNonWhitespace ==
    scan.done =>
        /\ IF scan.start > scan.end \/ C16_NonBlankAt = {}
           THEN scan.returned = 0 - 1
           ELSE IF LineAt(scan.buffer, C16_First) = NUL
                THEN scan.returned = 0 - 1
                ELSE scan.returned = C16_First
        /\ \/ scan.returned = 0 - 1
           \/ (scan.start <= scan.returned /\ scan.returned <= scan.end)

\* blanks skipped, and the byte found is the last of the range
C16_Witness ==
    /\ scan.done
    /\ scan.returned > scan.start
    /\ scan.returned = scan.end

\* ------------------------------------------------------------------ aeron_properties_setenv
\* faulty variant: lower-case letters are kept
toupper_Identity(c) == c

\* toupper of the C locale
toupper(c) == IF c \in 97..122 THEN c - 32 ELSE c

\* lines 151-168: env_name[i] for i < sizeof(env_name), up to the NUL of name
RECURSIVE EnvNameLoop(_, _, _)
EnvNameLoop(env_name, name, i) ==
    IF ~(i < Capacity) THEN env_name
    ELSE LET c == LineAt(name, i)
         IN IF c = DOT
            THEN EnvNameLoop([env_name EXCEPT ![i] = USCORE], name, i + 1)
            ELSE IF c = NUL
                 THEN [env_name EXCEPT ![i] = c]
                 ELSE EnvNameLoop([env_name EXCEPT ![i] = toupper(c)], name, i + 1)

\* char env_name[AERON_PROPERTIES_MAX_LENGTH] after the loop
EnvName(name) == EnvNameLoop([i \in 0..(Capacity - 1) |-> Indet], name, 0)

\* setenv and unsetenv fail with EINVAL, changing nothing, on a name that is
\* empty or holds '='
ValidKey(key) == key # <<>> /\ \A i \in 1..Len(key) : key[i] # EQ

\* faulty variant: setenv(env_name, value, false) keeps a variable that exists
setenv_NoOverwrite(e, key, value) ==
    IF ~ValidKey(key) \/ \E b \in e : b.key = key THEN e
    ELSE e \cup {[key |-> key, value |-> value]}

\* setenv(env_name, value, true)
setenv(e, key, value) ==
    IF ~ValidKey(key) THEN e
    ELSE {b \in e : b.key # key} \cup {[key |-> key, value |-> value]}

\* unsetenv(env_name)
unsetenv(e, key) ==
    IF ~ValidKey(key) THEN e ELSE {b \in e : b.key # key}

\* lines 170-179: the environment after the call; it returns 0
aeron_properties_setenv(e, key, value) ==
    IF LineAt(value, 0) = NUL THEN unsetenv(e, key) ELSE setenv(e, key, value)

NameBytes == {DOT, LA, UA, EQ}

\* the names given: every string over NameBytes up to MaxNameLen, and one
\* that fills env_name
EnvNames ==
    SeqsUpTo(NameBytes, MaxNameLen) \cup {[i \in 1..Capacity |-> LA]}

EnvValues == {<<>>, <<LA>>, <<EQ>>}

InitEnv ==
    /\ EnvIdle
    /\ ParserIdle /\ ScanIdle /\ LoadIdle

\* one call of aeron_properties_setenv(name, value)
Setenv ==
    /\ envcall.n < MaxCalls
    /\ \E name \in EnvNames, value \in EnvValues :
        \E key \in CStrings(EnvName(name), 0) :
            /\ env' = aeron_properties_setenv(env, key, value)
            /\ envcall' = [name |-> name, value |-> value, key |-> key,
                           terminated |-> CScan(EnvName(name), 0).ok,
                           before |-> env, returned |-> 0, n |-> envcall.n + 1]
    /\ UNCHANGED <<parserVars, scanVars, loadVars>>

NextEnv == Setenv

SpecEnv == InitEnv /\ [][NextEnv]_vars

\* ------------------------------------------------------------------ C14
\* the key the transformation is said to give: '_' for '.', the upper-case
\* letter for a lower-case letter, the same byte otherwise
C14_Key(name) ==
    [i \in 1..Len(name) |->
        IF name[i] = 46 THEN 95
        ELSE IF name[i] \in 97..122 THEN name[i] - 97 + 65
        ELSE name[i]]

\* C14: for every null-terminated name shorter than the buffer capacity the
\* key has the length of the name, holds '_' where the name has '.', the
\* ASCII upper-case letter where it has a lower-case letter and the same byte
\* otherwise, and is null-terminated.
C14_KeyTransformation ==
    (envcall.n > 0 /\ Len(envcall.name) < Capacity) =>
        /\ envcall.terminated
        /\ Len(envcall.key) = Len(envcall.name)
        /\ envcall.key = C14_Key(envcall.name)

\* a name with a '.' and a lower-case letter was transformed
C14_Witness ==
    /\ envcall.n > 0
    /\ Len(envcall.name) = 2
    /\ envcall.name[1] = LA
    /\ envcall.name[2] = DOT
    /\ envcall.key[1] # LA
    /\ envcall.key[2] = USCORE

\* ------------------------------------------------------------------ C13
\* a name the parser emits with a record: not empty, without separator,
\* shorter than the capacity
IsRecordName(name) ==
    /\ name # <<>>
    /\ Len(name) < Capacity
    /\ \A i \in 1..Len(name) : name[i] \notin {COLON, EQ}

\* the values the variable k holds in the environment e: none when absent
Getenv(e, k) == {b.value : b \in {x \in e : x.key = k}}

OtherVariables(e, k) == {b \in e : b.key # k}

\* C13: each call of aeron_properties_setenv returns 0; after a call with a
\* non-empty value the variable named by the transformed name holds exactly
\* that value, whatever it held before; after a call with an empty value
\* that variable is absent; every variable with a different key is unchanged.
C13_SetenvSemantics ==
    envcall.n > 0 =>
        /\ envcall.returned = 0
        /\ IsRecordName(envcall.name) =>
            LET k == C14_Key(envcall.name)
            IN /\ envcall.value # <<>> => Getenv(env, k) = {envcall.value}
               /\ envcall.value = <<>> => Getenv(env, k) = {}
               /\ OtherVariables(env, k) = OtherVariables(envcall.before, k)

\* a variable that held another value was overwritten, one with another key kept
C13_Witness ==
    /\ envcall.n > 0
    /\ IsRecordName(envcall.name)
    /\ envcall.value # <<>>
    /\ Getenv(envcall.before, C14_Key(envcall.name)) \notin {{}, {envcall.value}}
    /\ Getenv(env, C14_Key(envcall.name)) = {envcall.value}

\* ------------------------------------------------------------------ aeron_properties_file_load
FileChar == {LF, CR, EQ, BACKSLASH, LA}

Files == SeqsUpTo(FileChar, MaxFileLen)

\* what the byte before char line[] may hold
StrayBytes == {CR, NUL}

\* the place of the first '\n' of f, 0 when it has none
FirstNewline(f) ==
    LET at == {i \in 1..Len(f) : f[i] = LF}
    IN IF at = {} THEN 0 ELSE CHOOSE i \in at : \A j \in at : i <= j

\* fgets(line, sizeof(line), fpin): the bytes up to the first newline, at
\* most sizeof(line) - 1 of them
fgets(f) ==
    LET n == FirstNewline(f)
        room == Capacity - 1
    IN IF n > 0 /\ n <= room THEN SubSeq(f, 1, n)
       ELSE SubSeq(f, 1, IF Len(f) < room THEN Len(f) ELSE room)

\* faulty variant: every line is taken to end with its newline
EndsWithNewline_Always(l, length) == TRUE

\* line 206: '\n' == line[length - 1]
EndsWithNewline(l, length) == LineAt(l, length - 1) = LF

\* line 211: the bytes line[length - 1] may hold; for length 0 the index
\* wraps and the byte lies outside the line
ByteBefore(l, length) ==
    IF length > 0 THEN {LineAt(l, length - 1)} ELSE StrayBytes

\* lines 208-209 and 213-214: line[length - 1] = '\0'
Chop(l, length) == SubSeq(l, 1, length - 1)

\* faulty variant: only a positive result counts as failure
ParseFailed_Positive(r) == r > 0

\* line 217: aeron_properties_parse_line(...) < 0
ParseFailed(r) == r < 0

InitLoad ==
    /\ file \in Files
    /\ lineno = 1
    /\ load = NoLoad
    /\ raw = NoRaw
    /\ log = <<>>
    /\ ParserIdle /\ ScanIdle /\ EnvIdle

\* lines 194-200: fopen succeeds, the parser state is initialised
Fopen ==
    /\ load.at = "start"
    /\ load' = [load EXCEPT !.at = "reading"]
    /\ UNCHANGED <<file, lineno, raw, log, parserVars, scanVars, envVars>>

\* lines 194-198: fopen fails
FopenFails ==
    /\ load.at = "start"
    /\ load' = [at |-> "returned", result |-> 0 - 1, error |-> "open", lineno |-> 0]
    /\ UNCHANGED <<file, lineno, raw, log, parserVars, scanVars, envVars>>

\* lines 202-229: fgets reads a line, its newline and carriage return are
\* cut, the parser is called with aeron_properties_setenv_property as handler
ReadLine ==
    /\ load.at = "reading"
    /\ ~oob
    /\ file # <<>>
    /\ LET chunk == fgets(file)
           length0 == Len(chunk)
       IN /\ file' = SubSeq(file, length0 + 1, Len(file))
          /\ IF EndsWithNewline(chunk, length0)
             THEN LET l1 == Chop(chunk, length0)
                      length1 == length0 - 1
                      st0 == [str |-> property_str, name_end |-> name_end,
                              value_end |-> value_end, value_start |-> 0,
                              oob |-> FALSE]
                  IN \E b \in ByteBefore(l1, length1) :
                      LET cut == b = CR
                          l2 == IF cut /\ length1 > 0 THEN Chop(l1, length1) ELSE l1
                          length2 == IF cut THEN SizeT(length1 - 1) ELSE length1
                          r == IF TooLong(st0, length2)
                               THEN [st |-> st0, ret |-> "too_long",
                                     emit |-> FALSE, result |-> 0 - 1]
                               ELSE aeron_properties_parse_line(st0, l2)
                          names == IF r.emit THEN CStrings(r.st.str, 0) ELSE {<<>>}
                          values == IF r.emit
                                    THEN CStrings(r.st.str, SizeT(r.st.name_end + 1))
                                    ELSE {<<>>}
                      IN \E n \in names, v \in values :
                          \E key \in CStrings(EnvName(n), 0) :
                            LET made == IF r.emit
                                        THEN <<[name |-> n, value |-> v, returned |-> 0]>>
                                        ELSE <<>>
                                fin == IF r.emit THEN AfterHandler(r.st) ELSE r.st
                                res == IF r.emit THEN ReturnAfterHandler(0) ELSE r.result
                            IN /\ raw' = [bytes |-> chunk, length |-> length2,
                                          read |-> {length0 - 1, SizeT(length1 - 1)},
                                          written |-> {length0 - 1} \cup
                                              (IF cut THEN {SizeT(length1 - 1)} ELSE {})]
                               /\ line' = l2
                               /\ entry' = [str |-> property_str, name_end |-> name_end,
                                            value_end |-> value_end]
                               /\ ret' = r.ret
                               /\ oob' = r.st.oob
                               /\ calls' = made
                               /\ result' = res
                               /\ property_str' = fin.str
                               /\ name_end' = fin.name_end
                               /\ value_end' = fin.value_end
                               /\ env' = IF r.emit
                                         THEN aeron_properties_setenv(env, key, v)
                                         ELSE env
                               /\ envcall' = IF r.emit
                                             THEN [name |-> n, value |-> v, key |-> key,
                                                   terminated |-> CScan(EnvName(n), 0).ok,
                                                   before |-> env, returned |-> 0,
                                                   n |-> envcall.n + 1]
                                             ELSE envcall
                               /\ log' = Append(log, [line |-> l2, result |-> res,
                                                      calls |-> made])
                               /\ IF ParseFailed(res)
                                  THEN /\ load' = [at |-> "returned", result |-> 0 - 1,
                                                   error |-> "malformed",
                                                   lineno |-> lineno]
                                       /\ lineno' = lineno
                                  ELSE /\ load' = load
                                       /\ lineno' = lineno + 1
             ELSE /\ raw' = [bytes |-> chunk, length |-> length0,
                             read |-> {length0 - 1}, written |-> {}]
                  /\ load' = [at |-> "returned", result |-> 0 - 1,
                              error |-> "unterminated", lineno |-> lineno]
                  /\ UNCHANGED <<lineno, log, parserVars, envVars>>
    /\ UNCHANGED scanVars

\* lines 202 and 232-241: fgets returns NULL at the end of the file
ReadEof ==
    /\ load.at = "reading"
    /\ ~oob
    /\ file = <<>>
    /\ load' = [at |-> "returned", result |-> 0, error |-> "none", lineno |-> 0]
    /\ UNCHANGED <<file, lineno, raw, log, parserVars, scanVars, envVars>>

\* lines 202 and 232-238: fgets returns NULL on a read error
ReadFails ==
    /\ load.at = "reading"
    /\ ~oob
    /\ load' = [at |-> "returned", result |-> 0 - 1, error |-> "read", lineno |-> 0]
    /\ UNCHANGED <<file, lineno, raw, log, parserVars, scanVars, envVars>>

NextLoad == Fopen \/ FopenFails \/ ReadLine \/ ReadEof \/ ReadFails

SpecLoad == InitLoad /\ [][NextLoad]_vars

\* ------------------------------------------------------------------ C11
\* the records the parser calls of a log handed to the adapter, in order
RECURSIVE C11_Delivered(_)
C11_Delivered(l) ==
    IF l = <<>> THEN <<>>
    ELSE C11_Delivered(SubSeq(l, 1, Len(l) - 1)) \o l[Len(l)].calls

\* the environment after the adapter took the records rs one after the other
RECURSIVE C11_EnvAfter(_)
C11_EnvAfter(rs) ==
    IF rs = <<>> THEN {}
    ELSE LET r == rs[Len(rs)]
             e == C11_EnvAfter(SubSeq(rs, 1, Len(rs) - 1))
             k == C14_Key(r.name)
         IN IF r.value = <<>> THEN OtherVariables(e, k)
            ELSE OtherVariables(e, k) \cup {[key |-> k, value |-> r.value]}

\* C11: when line k is the first line on which the parser (or the handler)
\* reports failure, the load returns nonzero with the error annotated with
\* the 1-based line number k, every record terminated on a line before k
\* has been delivered to the environment adapter in order, and no line
\* after k is parsed or emitted.
C11_AbortOnFirstError ==
    /\ \A i \in 1..Len(log) :
        log[i].result < 0 =>
            /\ i = Len(log)
            /\ load.at = "returned"
            /\ load.result # 0
            /\ load.error = "malformed"
            /\ load.lineno = i
    /\ load.error = "malformed" =>
            /\ log # <<>>
            /\ log[Len(log)].result < 0
            /\ log[Len(log)].calls = <<>>
    /\ ~oob => env = C11_EnvAfter(C11_Delivered(log))

\* line 1 delivered a record, line 2 failed
C11_Witness ==
    /\ load.at = "returned"
    /\ load.error = "malformed"
    /\ load.lineno = 2
    /\ Len(log) = 2
    /\ Len(log[1].calls) = 1
    /\ log[1].calls[1].value # <<>>
    /\ env # {}

\* ------------------------------------------------------------------ C12
\* the next raw line of f does not end in a newline: no newline among the
\* bytes the read buffer takes, or none at all
C12_Unterminated(f) ==
    /\ f # <<>>
    /\ \A i \in 1..Len(f) : i <= Capacity - 1 => f[i] # 10

\* C12: a raw line that does not end in a newline (it filled the read buffer,
\* or it is the last line of a file without terminal newline) makes the load
\* return nonzero with that line's 1-based number; the line is never handed
\* to the parser, so a final "N=V" without newline is not emitted.
C12_UnterminatedFatal ==
    [][(load.at = "reading" /\ C12_Unterminated(file) /\ load'.error # "read") =>
            /\ load'.at = "returned"
            /\ load'.result # 0
            /\ load'.error = "unterminated"
            /\ load'.lineno = Len(log) + 1
            /\ log' = log
            /\ env' = env
            /\ UNCHANGED <<property_str, name_end, value_end, calls>>]_vars

\* the file ended in "N=V" without newline and nothing was emitted
C12_Witness ==
    /\ load.at = "returned"
    /\ load.error = "unterminated"
    /\ file = <<>>
    /\ SepAt(raw.bytes) > 1
    /\ Len(raw.bytes) > SepAt(raw.bytes)
    /\ log = <<>>
    /\ env = {}

\* ------------------------------------------------------------------ C19
\* C19: for every raw line read, the line of a lone newline included, the
\* newline and carriage-return checks read and write only indices within
\* [0, raw length) of the line buffer, and the length passed to the parser
\* is the raw length less the terminator bytes cut, never below zero.
C19_StripInBounds ==
    /\ \A i \in raw.read \cup raw.written : i < Len(raw.bytes)
    /\ raw.length <= Len(raw.bytes)

\* ------------------------------------------------------------------ C20
\* C20: whenever the load returns 0 the parser state at the end of the
\* stream is the zero state: a file whose last record still awaits its
\* continuation does not load successfully with that record missing.
C20_NoRecordPendingAtEof ==
    (load.at = "returned" /\ load.result = 0) => IsZero

====
